---- MODULE Spec2Model ----
(***************************************************************************)
(* Model of app.py: bulk creation of time-limited snapshots.               *)
(*                                                                         *)
(* Strings are sequences of symbols (one symbol = one or more characters   *)
(* that the program never looks inside).  Substring search, lower-casing,  *)
(* stripping and splitting work on these sequences as Python's str         *)
(* methods work on characters.                                             *)
(***************************************************************************)
EXTENDS Integers, Sequences, FiniteSets, TLC

(***************************************************************************)
(* Bounds of the model.                                                    *)
(***************************************************************************)
\* longest host list a request names
MaxHosts == 2
\* largest max_retries the stand-alone executor is called with
MaxRetriesArg == 4
\* longest vm_list the stand-alone grouper is called with
MaxRecords == 3

(***************************************************************************)
(* Python values.                                                          *)
(***************************************************************************)
\* Python's None where a string is expected (a symbol sequence no string of
\* the model equals), and where a list is expected
NoneVal == <<"<None>">>
NoneList == <<NoneVal>>

\* truthiness of an Optional[str] and of an Optional[list]
Truthy(x) == x # NoneVal /\ x # <<>>
TruthyList(x) == x # NoneList /\ x # <<>>

SetMin(S) == CHOOSE x \in S : \A y \in S : x <= y
SetMax(S) == CHOOSE x \in S : \A y \in S : x >= y

IsSpace(c) == c \in {" ", "\n"}

\* str.strip()
strip(s) ==
    LET keep == {i \in 1..Len(s) : ~IsSpace(s[i])}
    IN  IF keep = {} THEN <<>> ELSE SubSeq(s, SetMin(keep), SetMax(keep))

\* Python's `sub in s` for strings
Contains(sub, s) ==
    \E i \in 0..(Len(s) - Len(sub)) : SubSeq(s, i + 1, i + Len(sub)) = sub

LowerSym(c) ==
    CASE c = "X" -> "x"
      [] c = "A" -> "a"
      [] c = "B" -> "b"
      [] c = "T" -> "t"
      [] c = "Failed" -> "failed"
      [] OTHER -> c

\* str.lower()
lower(s) == [i \in 1..Len(s) |-> LowerSym(s[i])]

\* str.split(sep): empty fields are kept
RECURSIVE SplitOn(_, _)
SplitOn(s, sep) ==
    LET hits == {i \in 1..Len(s) : s[i] = sep}
    IN  IF hits = {} THEN <<s>>
        ELSE LET i == SetMin(hits)
             IN  <<SubSeq(s, 1, i - 1)>> \o SplitOn(SubSeq(s, i + 1, Len(s)), sep)

\* str.split(): runs of whitespace separate, no empty fields
RECURSIVE SplitWs(_)
SplitWs(s) ==
    LET t == strip(s)
        sp == {i \in 1..Len(t) : IsSpace(t[i])}
    IN  IF t = <<>> THEN <<>>
        ELSE IF sp = {} THEN <<t>>
        ELSE LET i == SetMin(sp)
             IN  <<SubSeq(t, 1, i - 1)>> \o SplitWs(SubSeq(t, i + 1, Len(t)))

(***************************************************************************)
(* The inventory file and the requests' inputs.                            *)
(***************************************************************************)
\* linux_vm-inventory.csv: one VM per line, "<resource id> <vm name>"
InventoryLines ==
    << <<"/", "s", "/", "A", "/", "1", " ", "v", "1", "\n">>,
       <<"/", "s", "/", "A", "/", "2", " ", "v", "2", "\n">>,
       <<"/", "s", "/", "B", "/", "3", " ", "v", "3", "\n">>,
       <<"/", "s", "/", "B", "/", "4", " ", "X", "4", "\n">>,
       <<"/", "s", "/", "A", "/", "5", " ", "Failed", "5", "\n">>,
       <<"/", "s", " ", "v", "6", "\n">>,
       <<"/", "s", "/", "B", "/", "7", " ", "v", "7", " ", "t", "\n">> >>

\* hostnames a host list may hold ("v", "9" is in no inventory line)
Hostnames ==
    { <<"v", "1">>, <<"v", "2">>, <<"v", "3">>, <<"X", "4">>,
      <<"Failed", "5">>, <<"v", "6">>, <<"v", "7">>, <<"v", "9">> }

\* exclude_keywords of a request: None, [], or keyword lists
KeywordChoices ==
    { NoneList, <<>>, << <<"x">>, <<"T">> >> }

HostLists == UNION {[1..n -> Hostnames] : n \in 0..MaxHosts}

(***************************************************************************)
(* Inventory Resolver: get_vm_info, extract_vm_info.                       *)
(***************************************************************************)
\* first inventory line containing the hostname, stripped; None without one
get_vm_info(hostname) ==
    LET hits == {i \in 1..Len(InventoryLines) : Contains(hostname, InventoryLines[i])}
    IN  IF hits = {} THEN NoneVal ELSE strip(InventoryLines[SetMin(hits)])

\* looks at the first keyword only
IsExcludedFirstKeyword(vm_info, keywords) ==
    /\ TruthyList(keywords)
    /\ Contains(lower(keywords[1]), lower(vm_info))

\* `exclude_keywords and any(keyword.lower() in vm_info.lower() ...)`
IsExcluded(vm_info, keywords) ==
    /\ TruthyList(keywords)
    /\ \E k \in 1..Len(keywords) : Contains(lower(keywords[k]), lower(vm_info))

\* gives up at the first hostname without an inventory line
RECURSIVE ResolveLoopStopsAtMiss(_, _, _, _)
ResolveLoopStopsAtMiss(hosts, keywords, vms, excl) ==
    IF hosts = <<>> THEN [vm_list |-> vms, excluded_vms |-> excl]
    ELSE LET hostname == Head(hosts)
             vm_info == get_vm_info(hostname)
         IN  IF Truthy(vm_info)
             THEN IF IsExcluded(vm_info, keywords)
                  THEN ResolveLoopStopsAtMiss(Tail(hosts), keywords, vms,
                                              Append(excl, hostname))
                  ELSE ResolveLoopStopsAtMiss(Tail(hosts), keywords,
                                              Append(vms, vm_info), excl)
             ELSE [vm_list |-> vms, excluded_vms |-> excl]

\* the loop of extract_vm_info over the host list: [vm_list, excluded_vms]
RECURSIVE ResolveLoop(_, _, _, _)
ResolveLoop(hosts, keywords, vms, excl) ==
    IF hosts = <<>> THEN [vm_list |-> vms, excluded_vms |-> excl]
    ELSE LET hostname == Head(hosts)
             vm_info == get_vm_info(hostname)
         IN  IF Truthy(vm_info)
             THEN IF IsExcluded(vm_info, keywords)
                  THEN ResolveLoop(Tail(hosts), keywords, vms, Append(excl, hostname))
                  ELSE ResolveLoop(Tail(hosts), keywords, Append(vms, vm_info), excl)
             ELSE ResolveLoop(Tail(hosts), keywords, vms, excl)

\* does not check that the host list exists
extract_vm_info_NoListCheck(inv_exists, list_exists, hosts, keywords) ==
    IF ~inv_exists
    THEN [vm_list |-> NoneList, error |-> "Inventory file not found", excluded_vms |-> <<>>]
    ELSE LET r == ResolveLoop(hosts, keywords, <<>>, <<>>)
         IN  [vm_list |-> r.vm_list, error |-> "", excluded_vms |-> r.excluded_vms]

\* extract_vm_info: (vm_list, error), with the excluded list it prints
extract_vm_info(inv_exists, list_exists, hosts, keywords) ==
    IF ~inv_exists
    THEN [vm_list |-> NoneList, error |-> "Inventory file not found", excluded_vms |-> <<>>]
    ELSE IF ~list_exists
    THEN [vm_list |-> NoneList, error |-> "List file not found", excluded_vms |-> <<>>]
    ELSE LET r == ResolveLoop(hosts, keywords, <<>>, <<>>)
         IN  [vm_list |-> r.vm_list, error |-> "", excluded_vms |-> r.excluded_vms]

(***************************************************************************)
(* Subscription Grouper: group_vms_by_subscription.                        *)
(***************************************************************************)
\* `resource_id, vm_name = line.split()` raises unless there are two fields;
\* `resource_id.split("/")[2]` raises unless there are three segments
LineRaises(line) ==
    \/ Len(SplitWs(line)) # 2
    \/ Len(SplitOn(SplitWs(line)[1], "/")) < 3

resource_id_of(line) == SplitWs(line)[1]
vm_name_of(line) == SplitWs(line)[2]
\* takes the segment before the subscription id
subscription_id_of_Segment2(line) == SplitOn(resource_id_of(line), "/")[2]

\* resource_id.split("/")[2], counted from 0
subscription_id_of(line) == SplitOn(resource_id_of(line), "/")[3]

\* inserts the record at the front of its group
AddToGroupFront(groups, sub, rec) ==
    IF \E g \in 1..Len(groups) : groups[g].subscription_id = sub
    THEN [g \in 1..Len(groups) |->
            IF groups[g].subscription_id = sub
            THEN [groups[g] EXCEPT !.vms = <<rec>> \o @]
            ELSE groups[g]]
    ELSE Append(groups, [subscription_id |-> sub, vms |-> <<rec>>])

\* grouped_vms[subscription_id].append((resource_id, vm_name)); the dict keeps
\* its keys in the order of their first insertion.  idx is the record's place
\* in vm_list (bookkeeping; the code's tuple is (resource_id, vm_name)).
AddToGroup(groups, sub, rec) ==
    IF \E g \in 1..Len(groups) : groups[g].subscription_id = sub
    THEN [g \in 1..Len(groups) |->
            IF groups[g].subscription_id = sub
            THEN [groups[g] EXCEPT !.vms = Append(@, rec)]
            ELSE groups[g]]
    ELSE Append(groups, [subscription_id |-> sub, vms |-> <<rec>>])

RECURSIVE GroupLoop(_, _, _)
GroupLoop(vms, k, groups) ==
    IF k > Len(vms) THEN groups
    ELSE GroupLoop(vms, k + 1,
            AddToGroup(groups, subscription_id_of(vms[k]),
                       [resource_id |-> resource_id_of(vms[k]),
                        vm_name |-> vm_name_of(vms[k]),
                        idx |-> k]))

\* the first record at which the loop raises (0: it returns)
GroupRaisesAt(vms) ==
    LET bad == {k \in 1..Len(vms) : LineRaises(vms[k])}
    IN  IF bad = {} THEN 0 ELSE SetMin(bad)

group_vms_by_subscription(vms) == GroupLoop(vms, 1, <<>>)

(***************************************************************************)
(* Command Executor: run_az_command.                                       *)
(***************************************************************************)
\* default of max_retries
max_retries_default == 3

\* retries whatever the exit code was
ExecRetriesIgnoresCode(attempt, returncode, max_retries) ==
    attempt < max_retries - 1

\* off by one: retries while attempt < max_retries
ExecRetriesOneMore(attempt, returncode, max_retries) ==
    returncode # 0 /\ attempt < max_retries

\* `if attempt < max_retries - 1` after an attempt that exited non-zero:
\* sleep, then try again
ExecRetries(attempt, returncode, max_retries) ==
    returncode # 0 /\ attempt < max_retries - 1

\* what run_az_command returns after the attempt whose captured streams and
\* exit code are o: line 61 for exit code 0, line 68 otherwise
ExecReturn(o) ==
    IF o.rc = 0
    THEN [stdout |-> strip(o.out), stderr |-> strip(o.err), returncode |-> o.rc]
    ELSE [stdout |-> <<>>, stderr |-> strip(o.err), returncode |-> o.rc]

(***************************************************************************)
(* What the external commands can answer (captured stdout, stderr, exit).  *)
(***************************************************************************)
ErrText == <<"err", "\n">>

\* az account show --query user.name -o tsv
IdentityOutcomes ==
    { [rc |-> 0, out |-> <<"u", "\n">>, err |-> <<>>],
      [rc |-> 0, out |-> <<"\n">>, err |-> <<>>],
      [rc |-> 1, out |-> <<>>, err |-> ErrText] }

\* az account set --subscription ...
SwitchOutcomes ==
    { [rc |-> 0, out |-> <<>>, err |-> <<>>],
      [rc |-> 1, out |-> <<>>, err |-> ErrText] }

\* az vm show ... -o json
DetailOutcomes ==
    { [rc |-> 0, out |-> <<"{", "resourceGroup", "diskId", "}", "\n">>, err |-> <<>>],
      [rc |-> 0, out |-> <<"{", "resourceGroup", "}", "\n">>, err |-> <<>>],
      [rc |-> 0, out |-> <<"Usage", "\n">>, err |-> <<>>],
      [rc |-> 1, out |-> <<>>, err |-> ErrText] }

\* az snapshot create ...
SnapshotOutcomes ==
    { [rc |-> 0, out |-> <<"{", "id", "name", "}", "\n">>, err |-> <<>>],
      [rc |-> 0, out |-> <<"{", "name", "}", "\n">>, err |-> <<>>],
      [rc |-> 0, out |-> <<"Usage", "\n">>, err |-> <<>>],
      [rc |-> 1, out |-> <<>>, err |-> ErrText] }

\* json.loads: an object "{" key ... "}" parses, anything else raises
json_loads(text) ==
    LET t == strip(text)
    IN  IF Len(t) >= 2 /\ t[1] = "{" /\ t[Len(t)] = "}"
        THEN [raises |-> FALSE, keys |-> {t[i] : i \in 2..(Len(t) - 1)}]
        ELSE [raises |-> TRUE, keys |-> {}]

(***************************************************************************)
(* Snapshot Worker: process_vm.                                            *)
(***************************************************************************)
FailedWord == <<"Failed">>
FailedToSetSubscription == <<"Failed", " ", "to", " ", "set", " ", "subscription">>
FailedToGetVmDetails == <<"Failed", " ", "to", " ", "get", " ", "VM", " ", "details">>
FailedToCreateSnapshot == <<"Failed", " ", "to", " ", "create", " ", "snapshot">>
FailedToExtractSnapshotId == <<"Failed", " ", "to", " ", "extract", " ", "snapshot", " ", "ID">>

\* chg_number and the run's timestamp
ChgNumber == <<"123">>
RunTimestamp == <<"ts">>

\* f"RH_{chg_number}_{vm_name}_{timestamp}"
snapshot_name_of(vm_name) ==
    <<"RH", "_">> \o ChgNumber \o <<"_">> \o vm_name \o <<"_">> \o RunTimestamp

\* appends to snap_rid_list.txt before looking at the id
process_vm_tail_PersistsFirst(vm_name, r) ==
    IF r.returncode # 0
    THEN [raises |-> FALSE, persist |-> FALSE,
          result |-> <<vm_name, FailedToCreateSnapshot>>]
    ELSE IF json_loads(r.stdout).raises
    THEN [raises |-> TRUE, persist |-> FALSE, result |-> <<NoneVal, NoneVal>>]
    ELSE IF "id" \in json_loads(r.stdout).keys
    THEN [raises |-> FALSE, persist |-> TRUE,
          result |-> <<vm_name, snapshot_name_of(vm_name)>>]
    ELSE [raises |-> FALSE, persist |-> TRUE,
          result |-> <<vm_name, FailedToExtractSnapshotId>>]

\* process_vm after run_az_command has returned r: what the worker returns,
\* whether it raises, and whether it appends to snap_rid_list.txt
process_vm_tail(vm_name, r) ==
    IF r.returncode # 0
    THEN [raises |-> FALSE, persist |-> FALSE,
          result |-> <<vm_name, FailedToCreateSnapshot>>]
    ELSE IF json_loads(r.stdout).raises
    THEN [raises |-> TRUE, persist |-> FALSE, result |-> <<NoneVal, NoneVal>>]
    ELSE IF "id" \in json_loads(r.stdout).keys
    THEN [raises |-> FALSE, persist |-> TRUE,
          result |-> <<vm_name, snapshot_name_of(vm_name)>>]
    ELSE [raises |-> FALSE, persist |-> FALSE,
          result |-> <<vm_name, FailedToExtractSnapshotId>>]

(***************************************************************************)
(* State.                                                                  *)
(***************************************************************************)
VARIABLES
    \* the request: files on disk and the arguments of main
    inventory_exists, host_file_exists, hostnames, exclude_keywords, ttl_duration,
    \* process-wide state: the TTL global, the CLI's active subscription,
    \* snap_rid_list.txt, the summary files written
    TTL_DURATION, active_subscription, snap_rid_list, summaries,
    \* main: where it is suspended, its command in flight, its locals
    pc, mainCmd, user_id, vm_list, excluded_vms, total_vms, grouped_vms,
    group_no, vm_no, tasks, successful_snapshots, failed_snapshots, ret,
    \* the event loop's process_vm tasks, by the record's place in vm_list
    workers,
    \* the external commands executed so far: the identity command, the switch
    \* command by group, the detail and create commands by record; and the
    \* groups whose switch command and the records whose detail command
    \* failed for good
    executed,
    \* a stand-alone call of run_az_command
    ex

request == <<inventory_exists, host_file_exists, hostnames, exclude_keywords, ttl_duration>>
resolved == <<user_id, vm_list, excluded_vms, total_vms, grouped_vms>>
vars == <<request, TTL_DURATION, active_subscription, snap_rid_list, summaries,
          pc, mainCmd, resolved, group_no, vm_no, tasks,
          successful_snapshots, failed_snapshots, ret, workers, executed, ex>>

\* TTL values a request may carry
TtlChoices == {3}

CmdIdle == [attempt |-> 0, phase |-> "idle"]
CmdStarted == [attempt |-> 0, phase |-> "run"]
\* (vm_name, result) of a task that has returned nothing
NoResult == <<NoneVal, NoneVal>>
\* a record no task was created for.  last: what the latest finished attempt
\* of the task's create command captured (bookkeeping)
NoWorker == [st |-> "none", attempt |-> 0, result |-> NoResult, expiration |-> 0,
             last |-> NoneVal]
ExIdle == [phase |-> "idle", max_retries |-> 0, attempt |-> 0, calls |-> 0,
           sleeps |-> 0, captured |-> <<>>, ret |-> NoneVal]

\* the process before main(host_file, chg_number, ttl_duration, exclude_keywords)
InitProcess ==
    /\ TTL_DURATION = 7
    /\ active_subscription = NoneVal
    /\ snap_rid_list = <<>>
    /\ summaries = <<>>
    /\ pc = "start"
    /\ mainCmd = CmdIdle
    /\ user_id = NoneVal
    /\ vm_list = <<>>
    /\ excluded_vms = <<>>
    /\ total_vms = 0
    /\ grouped_vms = <<>>
    /\ group_no = 0
    /\ vm_no = 0
    /\ tasks = <<>>
    /\ successful_snapshots = <<>>
    /\ failed_snapshots = <<>>
    /\ ret = [kind |-> "none"]
    /\ workers = <<>>
    /\ executed = [identity |-> FALSE, switch |-> {}, detail |-> {}, snapshot |-> {},
                   switch_failed |-> {}, detail_failed |-> {}]

Init ==
    /\ inventory_exists \in BOOLEAN
    /\ host_file_exists \in BOOLEAN
    /\ hostnames \in HostLists
    /\ exclude_keywords \in KeywordChoices
    /\ ttl_duration \in TtlChoices
    /\ InitProcess
    /\ ex = ExIdle

(***************************************************************************)
(* main: Authenticating and ResolvingInventory.                            *)
(***************************************************************************)
\* the outcomes the command main is waiting for can have
MainOutcomes ==
    CASE pc = "auth" -> IdentityOutcomes
      [] pc = "switch" -> SwitchOutcomes
      [] pc = "detail" -> DetailOutcomes
      [] OTHER -> {}

\* the record after the one main is fetching details for
CurrentVmNext ==
    LET vms == grouped_vms[group_no].vms
    IN  IF vm_no < Len(vms) THEN vms[vm_no + 1] ELSE vms[vm_no]

\* the record main is fetching details for
CurrentVm == grouped_vms[group_no].vms[vm_no]

\* asyncio.run's teardown when main ends: tasks not finished are cancelled
CancelPending(ws) ==
    [i \in 1..Len(ws) |->
        IF ws[i].st \in {"run", "sleep"}
        THEN [ws[i] EXCEPT !.st = "cancelled"]
        ELSE ws[i]]

\* lines 130-146: main up to its first await, the identity command started
MainStart ==
    /\ pc = "start"
    /\ TTL_DURATION' = ttl_duration
    /\ pc' = "auth"
    /\ mainCmd' = CmdStarted
    /\ executed' = [executed EXCEPT !.identity = TRUE]
    /\ UNCHANGED <<request, active_subscription, snap_rid_list, summaries, resolved,
                   group_no, vm_no, tasks, successful_snapshots, failed_snapshots,
                   ret, workers, ex>>

\* run_az_command inside main: an attempt exits non-zero and retries remain
MainRetry ==
    /\ mainCmd.phase = "run"
    /\ \E o \in MainOutcomes : ExecRetries(mainCmd.attempt, o.rc, max_retries_default)
    /\ mainCmd' = [mainCmd EXCEPT !.phase = "sleep"]
    /\ UNCHANGED <<request, TTL_DURATION, active_subscription, snap_rid_list, summaries,
                   pc, resolved, group_no, vm_no, tasks, successful_snapshots,
                   failed_snapshots, ret, workers, executed, ex>>

\* run_az_command inside main: the delay is over, the next attempt starts
MainWake ==
    /\ mainCmd.phase = "sleep"
    /\ mainCmd' = [attempt |-> mainCmd.attempt + 1, phase |-> "run"]
    /\ UNCHANGED <<request, TTL_DURATION, active_subscription, snap_rid_list, summaries,
                   pc, resolved, group_no, vm_no, tasks, successful_snapshots,
                   failed_snapshots, ret, workers, executed, ex>>

\* get_current_user_id after run_az_command returned r
user_id_of(r) == IF r.returncode # 0 THEN NoneVal ELSE strip(r.stdout)

\* main returns {"error": ...}
ReturnError(msg) ==
    /\ pc' = "failed"
    /\ mainCmd' = CmdIdle
    /\ ret' = [kind |-> "error", error |-> msg]

\* lines 146-148: no identity
AuthFail ==
    /\ pc = "auth" /\ mainCmd.phase = "run"
    /\ \E o \in IdentityOutcomes :
        /\ ~ExecRetries(mainCmd.attempt, o.rc, max_retries_default)
        /\ ~Truthy(user_id_of(ExecReturn(o)))
    /\ ReturnError("Failed to retrieve user ID from Azure CLI")
    /\ UNCHANGED <<request, TTL_DURATION, active_subscription, snap_rid_list, summaries,
                   resolved, group_no, vm_no, tasks, successful_snapshots,
                   failed_snapshots, workers, executed, ex>>

\* what extract_vm_info returns for this request
Resolution == extract_vm_info(inventory_exists, host_file_exists, hostnames, exclude_keywords)

\* lines 146-156: identity found, resolution fails or leaves no VM
ResolveFail ==
    /\ pc = "auth" /\ mainCmd.phase = "run"
    /\ \E o \in IdentityOutcomes :
        /\ ~ExecRetries(mainCmd.attempt, o.rc, max_retries_default)
        /\ Truthy(user_id_of(ExecReturn(o)))
        /\ user_id' = user_id_of(ExecReturn(o))
    /\ Resolution.error # "" \/ ~TruthyList(Resolution.vm_list)
    /\ excluded_vms' = Resolution.excluded_vms
    /\ ReturnError(IF Resolution.error # "" THEN Resolution.error
                   ELSE "No valid VM information found.")
    /\ UNCHANGED <<request, TTL_DURATION, active_subscription, snap_rid_list, summaries,
                   vm_list, total_vms, grouped_vms, group_no, vm_no, tasks,
                   successful_snapshots, failed_snapshots, workers, executed, ex>>

\* lines 146-159: group_vms_by_subscription raises on a malformed record
GroupRaise ==
    /\ pc = "auth" /\ mainCmd.phase = "run"
    /\ \E o \in IdentityOutcomes :
        /\ ~ExecRetries(mainCmd.attempt, o.rc, max_retries_default)
        /\ Truthy(user_id_of(ExecReturn(o)))
        /\ user_id' = user_id_of(ExecReturn(o))
    /\ Resolution.error = "" /\ TruthyList(Resolution.vm_list)
    /\ GroupRaisesAt(Resolution.vm_list) # 0
    /\ vm_list' = Resolution.vm_list
    /\ excluded_vms' = Resolution.excluded_vms
    /\ total_vms' = Len(Resolution.vm_list)
    /\ pc' = "raised"
    /\ mainCmd' = CmdIdle
    /\ UNCHANGED <<request, TTL_DURATION, active_subscription, snap_rid_list, summaries,
                   grouped_vms, group_no, vm_no, tasks, successful_snapshots,
                   failed_snapshots, ret, workers, executed, ex>>

\* lines 146-166: resolved and grouped; the first group's switch command started
AuthOk ==
    /\ pc = "auth" /\ mainCmd.phase = "run"
    /\ \E o \in IdentityOutcomes :
        /\ ~ExecRetries(mainCmd.attempt, o.rc, max_retries_default)
        /\ Truthy(user_id_of(ExecReturn(o)))
        /\ user_id' = user_id_of(ExecReturn(o))
    /\ Resolution.error = "" /\ TruthyList(Resolution.vm_list)
    /\ GroupRaisesAt(Resolution.vm_list) = 0
    /\ vm_list' = Resolution.vm_list
    /\ excluded_vms' = Resolution.excluded_vms
    /\ total_vms' = Len(Resolution.vm_list)
    /\ grouped_vms' = group_vms_by_subscription(Resolution.vm_list)
    /\ workers' = [i \in 1..Len(Resolution.vm_list) |-> NoWorker]
    /\ group_no' = 1
    /\ pc' = "switch"
    /\ mainCmd' = CmdStarted
    /\ executed' = [executed EXCEPT !.switch = {1}]
    /\ UNCHANGED <<request, TTL_DURATION, active_subscription, snap_rid_list, summaries,
                   vm_no, tasks, successful_snapshots, failed_snapshots, ret, ex>>

(***************************************************************************)
(* main: the loop over the subscription groups.                            *)
(***************************************************************************)
\* lines 203-224: the summary file is written and the counts are returned
Summarize(succ, fail) ==
    /\ summaries' = Append(summaries,
                       [total_vms |-> total_vms, successful |-> succ, failed |-> fail,
                        ttl |-> TTL_DURATION])
    /\ ret' = [kind |-> "counts", total_vms |-> total_vms,
               successful_snapshots |-> Len(succ), failed_snapshots |-> Len(fail)]
    /\ pc' = "done"
    /\ mainCmd' = CmdIdle
    /\ UNCHANGED group_no

\* goes through the group again when one of its VMs failed
NextGroupRepeatsFailed(succ, fail, exe) ==
    /\ successful_snapshots' = succ
    /\ failed_snapshots' = fail
    /\ IF Len(fail) > Len(failed_snapshots)
       THEN /\ pc' = "switch"
            /\ mainCmd' = CmdStarted
            /\ executed' = exe
            /\ UNCHANGED <<group_no, summaries, ret>>
       ELSE IF group_no < Len(grouped_vms)
       THEN /\ group_no' = group_no + 1
            /\ pc' = "switch"
            /\ mainCmd' = CmdStarted
            /\ executed' = [exe EXCEPT !.switch = @ \cup {group_no + 1}]
            /\ UNCHANGED <<summaries, ret>>
       ELSE /\ Summarize(succ, fail)
            /\ executed' = exe

\* the for loop of line 164 moves on: the next group's switch command is
\* started, or, after the last group, the run is summarized
NextGroup(succ, fail, exe) ==
    /\ successful_snapshots' = succ
    /\ failed_snapshots' = fail
    /\ IF group_no < Len(grouped_vms)
       THEN /\ group_no' = group_no + 1
            /\ pc' = "switch"
            /\ mainCmd' = CmdStarted
            /\ executed' = [exe EXCEPT !.switch = @ \cup {group_no + 1}]
            /\ UNCHANGED <<summaries, ret>>
       ELSE /\ Summarize(succ, fail)
            /\ executed' = exe

\* fails the first VM of the group only
FailGroupFirstOnly(fail, vms) ==
    Append(fail, <<vms[1].vm_name, FailedToSetSubscription>>)

\* lines 170-171: every VM of the group fails
FailGroup(fail, vms) ==
    fail \o [k \in 1..Len(vms) |-> <<vms[k].vm_name, FailedToSetSubscription>>]

\* lines 166-172: the switch command failed for good
SwitchFail ==
    /\ pc = "switch" /\ mainCmd.phase = "run"
    /\ \E o \in SwitchOutcomes :
        /\ ~ExecRetries(mainCmd.attempt, o.rc, max_retries_default)
        /\ ExecReturn(o).returncode # 0
    /\ NextGroup(successful_snapshots,
                 FailGroup(failed_snapshots, grouped_vms[group_no].vms),
                 [executed EXCEPT !.switch_failed = @ \cup {group_no}])
    /\ UNCHANGED <<request, TTL_DURATION, active_subscription, snap_rid_list, resolved,
                   vm_no, tasks, workers, ex>>

\* lines 166-181: switched; the first VM's detail command started
SwitchOk ==
    /\ pc = "switch" /\ mainCmd.phase = "run"
    /\ \E o \in SwitchOutcomes :
        /\ ~ExecRetries(mainCmd.attempt, o.rc, max_retries_default)
        /\ ExecReturn(o).returncode = 0
    /\ active_subscription' = grouped_vms[group_no].subscription_id
    /\ tasks' = <<>>
    /\ vm_no' = 1
    /\ pc' = "detail"
    /\ mainCmd' = CmdStarted
    /\ executed' = [executed EXCEPT !.detail = @ \cup {grouped_vms[group_no].vms[1].idx}]
    /\ UNCHANGED <<request, TTL_DURATION, snap_rid_list, summaries, resolved, group_no,
                   successful_snapshots, failed_snapshots, ret, workers, ex>>

\* the for loop of line 177 moves on: the next VM's detail command is started,
\* or main awaits asyncio.gather(*tasks)
NextVm(exe) ==
    IF vm_no < Len(grouped_vms[group_no].vms)
    THEN /\ vm_no' = vm_no + 1
         /\ pc' = "detail"
         /\ mainCmd' = CmdStarted
         /\ executed' = [exe EXCEPT
                           !.detail = @ \cup {grouped_vms[group_no].vms[vm_no + 1].idx}]
    ELSE /\ pc' = "gather"
         /\ mainCmd' = CmdIdle
         /\ executed' = exe
         /\ UNCHANGED vm_no

\* leaves the loop over the group's VMs at the first failed detail command
DetailFailBreaks ==
    /\ pc = "detail" /\ mainCmd.phase = "run"
    /\ \E o \in DetailOutcomes :
        /\ ~ExecRetries(mainCmd.attempt, o.rc, max_retries_default)
        /\ ExecReturn(o).returncode # 0
    /\ failed_snapshots' = Append(failed_snapshots,
                                  <<CurrentVm.vm_name, FailedToGetVmDetails>>)
    /\ pc' = "gather"
    /\ mainCmd' = CmdIdle
    /\ executed' = [executed EXCEPT !.detail_failed = @ \cup {CurrentVm.idx}]
    /\ UNCHANGED <<request, TTL_DURATION, active_subscription, snap_rid_list, summaries,
                   resolved, group_no, vm_no, tasks, successful_snapshots, ret,
                   workers, ex>>

\* lines 182-186: the detail command failed for good
DetailFail ==
    /\ pc = "detail" /\ mainCmd.phase = "run"
    /\ \E o \in DetailOutcomes :
        /\ ~ExecRetries(mainCmd.attempt, o.rc, max_retries_default)
        /\ ExecReturn(o).returncode # 0
    /\ failed_snapshots' = Append(failed_snapshots,
                                  <<CurrentVm.vm_name, FailedToGetVmDetails>>)
    /\ NextVm([executed EXCEPT !.detail_failed = @ \cup {CurrentVm.idx}])
    /\ UNCHANGED <<request, TTL_DURATION, active_subscription, snap_rid_list, summaries,
                   resolved, group_no, tasks, successful_snapshots, ret, workers, ex>>

\* lines 188-190 raise on what the command printed
DetailParseRaises(r) ==
    \/ json_loads(r.stdout).raises
    \/ ~({"resourceGroup", "diskId"} \subseteq json_loads(r.stdout).keys)

\* lines 188-190 raise: main ends with the exception, asyncio.run cancels the tasks
DetailRaise ==
    /\ pc = "detail" /\ mainCmd.phase = "run"
    /\ \E o \in DetailOutcomes :
        /\ ~ExecRetries(mainCmd.attempt, o.rc, max_retries_default)
        /\ ExecReturn(o).returncode = 0
        /\ DetailParseRaises(ExecReturn(o))
    /\ pc' = "raised"
    /\ mainCmd' = CmdIdle
    /\ workers' = CancelPending(workers)
    /\ UNCHANGED <<request, TTL_DURATION, active_subscription, snap_rid_list, summaries,
                   resolved, group_no, vm_no, tasks, successful_snapshots,
                   failed_snapshots, ret, executed, ex>>

\* lines 188-193 and 91-102: asyncio.create_task(process_vm(...)),
\* tasks.append(task).  The new task runs up to its first await (lines 91-102:
\* log entries, snapshot name, expiration date, create command started) as soon
\* as main suspends, which is at the end of this step, when the next detail
\* command has been started or gather is awaited; no command can be seen to
\* finish before that.
DetailOk ==
    /\ pc = "detail" /\ mainCmd.phase = "run"
    /\ \E o \in DetailOutcomes :
        /\ ~ExecRetries(mainCmd.attempt, o.rc, max_retries_default)
        /\ ExecReturn(o).returncode = 0
        /\ ~DetailParseRaises(ExecReturn(o))
    /\ workers' = [workers EXCEPT ![CurrentVm.idx] =
                      [st |-> "run", attempt |-> 0, result |-> NoResult,
                       expiration |-> TTL_DURATION, last |-> NoneVal]]
    /\ tasks' = Append(tasks, CurrentVm.idx)
    /\ NextVm([executed EXCEPT !.snapshot = @ \cup {CurrentVm.idx}])
    /\ UNCHANGED <<request, TTL_DURATION, active_subscription, snap_rid_list, summaries,
                   resolved, group_no, successful_snapshots, failed_snapshots, ret, ex>>

\* the tasks are not awaited
GatherNoWait(ts, ws) == TRUE

\* `await asyncio.gather(*tasks)` returns: every task has returned
GatherReady(ts, ws) == \A k \in 1..Len(ts) : ws[ts[k]].st = "done"

\* `if "Failed" not in result`
IsSuccess(result) == ~Contains(FailedWord, result)

\* keeps the successes only
RECURSIVE CollectSuccessesOnly(_, _, _)
CollectSuccessesOnly(results, succ, fail) ==
    IF results = <<>> THEN [succ |-> succ, fail |-> fail]
    ELSE IF IsSuccess(Head(results)[2])
    THEN CollectSuccessesOnly(Tail(results), Append(succ, Head(results)), fail)
    ELSE CollectSuccessesOnly(Tail(results), succ, fail)

\* lines 196-200 over the gathered results, in task order
RECURSIVE Collect(_, _, _)
Collect(results, succ, fail) ==
    IF results = <<>> THEN [succ |-> succ, fail |-> fail]
    ELSE IF IsSuccess(Head(results)[2])
    THEN Collect(Tail(results), Append(succ, Head(results)), fail)
    ELSE Collect(Tail(results), succ, Append(fail, Head(results)))

\* lines 195-200, then the next group or the summary
GatherDone ==
    /\ pc = "gather"
    /\ GatherReady(tasks, workers)
    /\ LET results == [k \in 1..Len(tasks) |-> workers[tasks[k]].result]
           c == Collect(results, successful_snapshots, failed_snapshots)
       IN  NextGroup(c.succ, c.fail, executed)
    /\ UNCHANGED <<request, TTL_DURATION, active_subscription, snap_rid_list, resolved,
                   vm_no, tasks, workers, ex>>

\* line 195: a task raised; gather hands the exception to main, main ends
\* with it and asyncio.run cancels the tasks still running
GatherRaise ==
    /\ pc = "gather"
    /\ \E k \in 1..Len(tasks) : workers[tasks[k]].st = "raised"
    /\ pc' = "raised"
    /\ workers' = CancelPending(workers)
    /\ UNCHANGED <<request, TTL_DURATION, active_subscription, snap_rid_list, summaries,
                   mainCmd, resolved, group_no, vm_no, tasks, successful_snapshots,
                   failed_snapshots, ret, executed, ex>>

(***************************************************************************)
(* The process_vm tasks.                                                   *)
(***************************************************************************)
WorkerVmName(i) == vm_name_of(vm_list[i])

\* run_az_command inside the task: failed attempt, retries remain
WorkerRetry(i) ==
    /\ workers[i].st = "run"
    /\ \E o \in SnapshotOutcomes :
          /\ ExecRetries(workers[i].attempt, o.rc, max_retries_default)
          /\ workers' = [workers EXCEPT ![i].st = "sleep", ![i].last = o]
    /\ UNCHANGED <<request, TTL_DURATION, active_subscription, snap_rid_list, summaries,
                   pc, mainCmd, resolved, group_no, vm_no, tasks,
                   successful_snapshots, failed_snapshots, ret, executed, ex>>

\* the delay is over, the next attempt starts
WorkerWake(i) ==
    /\ workers[i].st = "sleep"
    /\ workers' = [workers EXCEPT ![i].st = "run", ![i].attempt = @ + 1]
    /\ UNCHANGED <<request, TTL_DURATION, active_subscription, snap_rid_list, summaries,
                   pc, mainCmd, resolved, group_no, vm_no, tasks,
                   successful_snapshots, failed_snapshots, ret, executed, ex>>

\* write_snapshot_rid
SnapshotRecord(i) ==
    [snapshot_id |-> <<"id">> \o snapshot_name_of(WorkerVmName(i)),
     snapshot_name |-> snapshot_name_of(WorkerVmName(i)),
     expiration_date |-> workers[i].expiration,
     user_id |-> user_id,
     idx |-> i]

\* lines 104-120: run_az_command returned; the task returns or raises
WorkerDone(i) ==
    /\ workers[i].st = "run"
    /\ \E o \in SnapshotOutcomes :
        /\ ~ExecRetries(workers[i].attempt, o.rc, max_retries_default)
        /\ LET t == process_vm_tail(WorkerVmName(i), ExecReturn(o))
           IN  /\ workers' = [workers EXCEPT
                                ![i].st = IF t.raises THEN "raised" ELSE "done",
                                ![i].attempt = 0,
                                ![i].last = o,
                                ![i].result = t.result]
               /\ snap_rid_list' = IF t.persist
                                   THEN Append(snap_rid_list, SnapshotRecord(i))
                                   ELSE snap_rid_list
    /\ UNCHANGED <<request, TTL_DURATION, active_subscription, summaries,
                   pc, mainCmd, resolved, group_no, vm_no, tasks,
                   successful_snapshots, failed_snapshots, ret, executed, ex>>

MainNext ==
    \/ MainStart
    \/ MainRetry
    \/ MainWake
    \/ AuthFail
    \/ ResolveFail
    \/ GroupRaise
    \/ AuthOk
    \/ SwitchFail
    \/ SwitchOk
    \/ DetailFail
    \/ DetailRaise
    \/ DetailOk
    \/ GatherDone
    \/ GatherRaise
    \/ \E i \in 1..Len(workers) : WorkerRetry(i)
    \/ \E i \in 1..Len(workers) : WorkerWake(i)
    \/ \E i \in 1..Len(workers) : WorkerDone(i)

Next == MainNext

Spec == Init /\ [][Next]_vars

(***************************************************************************)
(* A run of main while other create-snapshots requests arrive in the same  *)
(* process.  Each request is served by create_snapshots, which calls       *)
(* asyncio.run(main(...)) with the request's ttl_duration; the module's    *)
(* globals are shared by all requests.  Another request is followed up to  *)
(* the first await of its main.                                            *)
(***************************************************************************)
\* TTL values the other requests carry
OtherTtlChoices == {5}

\* lines 256-264 and 130-146 of another request: its main stores its
\* ttl_duration in the global
OtherRequestStart ==
    /\ \E t \in OtherTtlChoices :
          /\ TTL_DURATION # t
          /\ TTL_DURATION' = t
    /\ UNCHANGED <<request, active_subscription, snap_rid_list, summaries, pc, mainCmd,
                   resolved, group_no, vm_no, tasks, successful_snapshots,
                   failed_snapshots, ret, workers, executed, ex>>

NextOverlap ==
    \/ MainNext
    \/ OtherRequestStart

SpecOverlap == Init /\ [][NextOverlap]_vars

(***************************************************************************)
(* run_az_command on its own, for any max_retries and any command.         *)
(*   ex.attempt    the loop variable                                       *)
(*   ex.calls      subprocesses started                                    *)
(*   ex.sleeps     asyncio.sleep(delay) calls                              *)
(*   ex.captured   what each finished attempt captured, in order           *)
(*   ex.ret        the returned (stdout, stderr, returncode)               *)
(***************************************************************************)
\* what an attempt of an arbitrary command can capture
ExecOutcomes ==
    { [rc |-> 0, out |-> <<"o", "\n">>, err |-> <<>>],
      [rc |-> 0, out |-> <<>>, err |-> <<"w", "\n">>],
      [rc |-> 1, out |-> <<"o", "\n">>, err |-> <<"e", "\n">>],
      [rc |-> 2, out |-> <<>>, err |-> <<"\n", "e">>],
      [rc |-> -9, out |-> <<"o">>, err |-> <<>>] }

InitExec ==
    /\ inventory_exists = TRUE
    /\ host_file_exists = TRUE
    /\ hostnames = <<>>
    /\ exclude_keywords = NoneList
    /\ ttl_duration \in TtlChoices
    /\ InitProcess
    /\ \E m \in 0..MaxRetriesArg : ex = [ExIdle EXCEPT !.max_retries = m]

notExec == <<request, TTL_DURATION, active_subscription, snap_rid_list, summaries,
             pc, mainCmd, resolved, group_no, vm_no, tasks,
             successful_snapshots, failed_snapshots, ret, workers, executed>>

\* line 53-54: the loop is entered, the first subprocess is started
ExCall ==
    /\ ex.phase = "idle"
    /\ ex.max_retries >= 1
    /\ ex' = [ex EXCEPT !.phase = "run", !.attempt = 0, !.calls = 1]
    /\ UNCHANGED notExec

\* line 53, 68: range(0) is empty, `stderr` is read unbound
ExCallRaises ==
    /\ ex.phase = "idle"
    /\ ex.max_retries < 1
    /\ ex' = [ex EXCEPT !.phase = "raised"]
    /\ UNCHANGED notExec

\* lines 62-67: the attempt exited non-zero and retries remain: sleep
ExRetry ==
    /\ ex.phase = "run"
    /\ \E o \in ExecOutcomes :
        /\ ExecRetries(ex.attempt, o.rc, ex.max_retries)
        /\ ex' = [ex EXCEPT !.phase = "sleep", !.sleeps = @ + 1,
                            !.captured = Append(@, o)]
    /\ UNCHANGED notExec

\* line 53-54: the delay is over, the next iteration starts its subprocess
ExWake ==
    /\ ex.phase = "sleep"
    /\ ex' = [ex EXCEPT !.phase = "run", !.attempt = @ + 1, !.calls = @ + 1]
    /\ UNCHANGED notExec

\* lines 60-61 and 68: the function returns
ExReturn ==
    /\ ex.phase = "run"
    /\ \E o \in ExecOutcomes :
        /\ ~ExecRetries(ex.attempt, o.rc, ex.max_retries)
        /\ ex' = [ex EXCEPT !.phase = "returned", !.captured = Append(@, o),
                            !.ret = ExecReturn(o)]
    /\ UNCHANGED notExec

NextExec ==
    \/ ExCall
    \/ ExCallRaises
    \/ ExRetry
    \/ ExWake
    \/ ExReturn

SpecExec == InitExec /\ [][NextExec]_vars

(***************************************************************************)
(* group_vms_by_subscription on its own, for any list of inventory lines.  *)
(***************************************************************************)
ResolvedLines == {strip(InventoryLines[i]) : i \in 1..Len(InventoryLines)}

InitGroup ==
    /\ inventory_exists = TRUE
    /\ host_file_exists = TRUE
    /\ hostnames = <<>>
    /\ exclude_keywords = NoneList
    /\ ttl_duration \in TtlChoices
    /\ TTL_DURATION = 7
    /\ active_subscription = NoneVal
    /\ snap_rid_list = <<>>
    /\ summaries = <<>>
    /\ pc = "group_call"
    /\ mainCmd = CmdIdle
    /\ user_id = NoneVal
    /\ vm_list \in UNION {[1..n -> ResolvedLines] : n \in 0..MaxRecords}
    /\ excluded_vms = <<>>
    /\ total_vms = 0
    /\ grouped_vms = <<>>
    /\ group_no = 0
    /\ vm_no = 0
    /\ tasks = <<>>
    /\ successful_snapshots = <<>>
    /\ failed_snapshots = <<>>
    /\ ret = [kind |-> "none"]
    /\ workers = <<>>
    /\ executed = [identity |-> FALSE, switch |-> {}, detail |-> {}, snapshot |-> {},
                   switch_failed |-> {}, detail_failed |-> {}]
    /\ ex = ExIdle

notGroup == <<request, TTL_DURATION, active_subscription, snap_rid_list, summaries,
              mainCmd, user_id, vm_list, excluded_vms, total_vms, group_no, vm_no,
              tasks, successful_snapshots, failed_snapshots, ret, workers, executed, ex>>

\* lines 123-128: every line unpacks, the mapping is returned
GroupReturn ==
    /\ pc = "group_call"
    /\ GroupRaisesAt(vm_list) = 0
    /\ grouped_vms' = group_vms_by_subscription(vm_list)
    /\ pc' = "grouped"
    /\ UNCHANGED notGroup

\* lines 125-126: a line does not unpack or has no subscription segment
GroupRaises ==
    /\ pc = "group_call"
    /\ GroupRaisesAt(vm_list) # 0
    /\ pc' = "group_raised"
    /\ UNCHANGED <<notGroup, grouped_vms>>

NextGroupCall ==
    \/ GroupReturn
    \/ GroupRaises

SpecGroup == InitGroup /\ [][NextGroupCall]_vars

(***************************************************************************)
(* Properties of run_az_command (SpecExec).                                *)
(***************************************************************************)
ExAllFailed == \A k \in 1..Len(ex.captured) : ex.captured[k].rc # 0
ExLast == ex.captured[Len(ex.captured)]

\* the streams and exit code an attempt captured, decoded and stripped
CapturedResult(o) ==
    [stdout |-> strip(o.out), stderr |-> strip(o.err), returncode |-> o.rc]

ExExhausted ==
    /\ ex.max_retries >= 1 => ex.phase # "raised"
    /\ ex.phase = "returned" /\ ExAllFailed =>
          /\ ex.calls = ex.max_retries
          /\ ex.sleeps = ex.max_retries - 1
          /\ ExLast.rc # 0

\* C3 as stated: for every max_retries >= 1, when every attempt exits
\* non-zero, run_az_command runs the command exactly max_retries times,
\* sleeps max_retries - 1 times, does not raise, and returns the last
\* attempt's captured result (stdout, stderr, exit code).
C3_ReturnsLastCaptured ==
    /\ ExExhausted
    /\ ex.phase = "returned" /\ ExAllFailed => ex.ret = CapturedResult(ExLast)

\* C3 amended: as above, but what is returned is the last attempt's stderr
\* and exit code with an empty stdout; the stdout the last attempt captured
\* is dropped.
C3_ReturnsLastStderrAndCode ==
    /\ ExExhausted
    /\ ex.phase = "returned" /\ ExAllFailed =>
          ex.ret = [CapturedResult(ExLast) EXCEPT !.stdout = <<>>]

\* three failed attempts of the default max_retries, the last one with output
C3_Witness ==
    /\ ex.phase = "returned"
    /\ ex.max_retries = max_retries_default
    /\ Len(ex.captured) = max_retries_default
    /\ ExAllFailed
    /\ ExLast.out # <<>>
    /\ ex.sleeps = 2

(***************************************************************************)
(* Properties of group_vms_by_subscription (SpecGroup).                    *)
(***************************************************************************)
\* the places (group, position) of the returned mapping
GroupSlots ==
    UNION {{<<g, k>> : k \in 1..Len(grouped_vms[g].vms)} : g \in 1..Len(grouped_vms)}

\* C10: group_vms_by_subscription partitions the records: the group sizes
\* sum to the number of records, every record is in exactly one group, the
\* one keyed by the subscription segment of its resource id, group keys are
\* distinct, and each group keeps the order of encounter.
C10_GroupingPartitions ==
    pc = "grouped" =>
        /\ Cardinality(GroupSlots) = Len(vm_list)
        /\ \A i \in 1..Len(vm_list) :
              Cardinality({p \in GroupSlots :
                              grouped_vms[p[1]].vms[p[2]].idx = i}) = 1
        /\ \A p \in GroupSlots :
              LET r == grouped_vms[p[1]].vms[p[2]]
                  fields == SplitWs(vm_list[r.idx])
              IN  /\ r.resource_id = fields[1]
                  /\ r.vm_name = fields[2]
                  /\ grouped_vms[p[1]].subscription_id = SplitOn(fields[1], "/")[3]
        /\ \A g, h \in 1..Len(grouped_vms) :
              g # h => grouped_vms[g].subscription_id # grouped_vms[h].subscription_id
        /\ \A g \in 1..Len(grouped_vms) :
              \A k, l \in 1..Len(grouped_vms[g].vms) :
                 k < l => grouped_vms[g].vms[k].idx < grouped_vms[g].vms[l].idx

\* two groups, the first holding the first and the third record
C10_Witness ==
    /\ pc = "grouped"
    /\ Len(grouped_vms) = 2
    /\ Len(grouped_vms[1].vms) = 2
    /\ grouped_vms[1].vms[1].idx = 1
    /\ grouped_vms[1].vms[2].idx = 3
    /\ grouped_vms[2].vms[1].idx = 2

(***************************************************************************)
(* Properties of a run of main (Spec).                                     *)
(***************************************************************************)
\* the inventory line of every hostname (None without one)
LineOf == [h \in Hostnames |-> get_vm_info(h)]

\* for every keyword list and hostname: the hostname's inventory line carries
\* one of the keywords, compared without regard to case
HitTable ==
    [kws \in KeywordChoices |->
        [h \in Hostnames |->
            /\ kws # NoneList
            /\ \E k \in 1..Len(kws) : Contains(lower(kws[k]), lower(LineOf[h]))]]

KeywordHit(h) == HitTable[exclude_keywords][h]

\* places of the host list whose hostname has an inventory line
Matched == {n \in 1..Len(hostnames) : Truthy(LineOf[hostnames[n]])}
Kept == {n \in Matched : ~KeywordHit(hostnames[n])}
Dropped == {n \in Matched : KeywordHit(hostnames[n])}

\* extract_vm_info has run its loop
ResolutionRan ==
    /\ pc \notin {"start", "auth"}
    /\ Truthy(user_id)
    /\ inventory_exists
    /\ host_file_exists

Pending(i) == workers[i].st \in {"run", "sleep"}
GroupOf(i) ==
    CHOOSE g \in 1..Len(grouped_vms) :
        \E k \in 1..Len(grouped_vms[g].vms) : grouped_vms[g].vms[k].idx = i
NameOf(i) == SplitWs(vm_list[i])[2]
Occurrences(seq, x) == Cardinality({j \in 1..Len(seq) : seq[j] = x})
Reported(seq, name) == \E j \in 1..Len(seq) : seq[j][1] = name

\* C1: in every run that reaches the summary, succeeded + failed equals
\* total_vms, the number of hostnames resolved and not excluded.
C1_CountsAddUp ==
    pc = "done" =>
        /\ ret.kind = "counts"
        /\ ret.successful_snapshots = Len(successful_snapshots)
        /\ ret.failed_snapshots = Len(failed_snapshots)
        /\ ret.successful_snapshots + ret.failed_snapshots = ret.total_vms
        /\ ret.total_vms = Cardinality(Kept)

\* a summarized run with a group failure and a worker failure
C1_Witness ==
    /\ pc = "done"
    /\ ret.total_vms = 2
    /\ \E j, k \in 1..Len(failed_snapshots) :
          /\ failed_snapshots[j][2] = FailedToSetSubscription
          /\ failed_snapshots[k][2] = FailedToCreateSnapshot

\* C2: while a group's switch command is being executed every task launched
\* before has returned, and tasks not yet finished always belong to the
\* group main is in.
C2_GroupsSequential ==
    /\ pc = "switch" => \A i \in 1..Len(workers) : workers[i].st \in {"none", "done"}
    /\ \A i \in 1..Len(workers) :
          Pending(i) => pc \in {"detail", "gather"} /\ GroupOf(i) = group_no

\* the second group's switch command runs after a task of the first returned
C2_Witness ==
    /\ pc = "switch"
    /\ group_no = 2
    /\ mainCmd.phase = "run"
    /\ \E i \in 1..Len(workers) : workers[i].st = "done" /\ GroupOf(i) = 1

\* C4: a group whose switch command failed has every VM in failed with
\* "Failed to set subscription", no detail or create command and no task for
\* any of its VMs; main has moved to the next group or to the summary and has
\* not returned an error; only VMs of such groups carry that reason, and at
\* the summary every VM of the other groups has its own outcome.
C4_SwitchFailureFailsGroupOnly ==
    /\ \A g \in executed.switch_failed :
          /\ \A k \in 1..Len(grouped_vms[g].vms) :
                LET r == grouped_vms[g].vms[k]
                IN  /\ r.idx \notin executed.detail
                    /\ r.idx \notin executed.snapshot
                    /\ workers[r.idx].st = "none"
                    /\ Occurrences(failed_snapshots,
                                   <<r.vm_name, FailedToSetSubscription>>)
                         = Cardinality({l \in 1..Len(grouped_vms[g].vms) :
                                           grouped_vms[g].vms[l].vm_name = r.vm_name})
                    /\ ~Reported(successful_snapshots, r.vm_name)
          /\ pc \in {"switch", "detail", "gather", "done", "raised"}
          /\ IF g < Len(grouped_vms) THEN group_no > g ELSE pc = "done"
    /\ \A j \in 1..Len(failed_snapshots) :
          failed_snapshots[j][2] = FailedToSetSubscription =>
              \E g \in executed.switch_failed : \E k \in 1..Len(grouped_vms[g].vms) :
                  grouped_vms[g].vms[k].vm_name = failed_snapshots[j][1]
    /\ pc = "done" =>
          \A i \in 1..Len(vm_list) :
              GroupOf(i) \notin executed.switch_failed =>
                  /\ i \in executed.detail
                  /\ Reported(successful_snapshots, NameOf(i))
                       \/ Reported(failed_snapshots, NameOf(i))

\* the first group's switch failed, the second group's VM got its snapshot
C4_Witness ==
    /\ pc = "done"
    /\ executed.switch_failed = {1}
    /\ Len(grouped_vms) = 2
    /\ Len(successful_snapshots) = 1
    /\ Len(snap_rid_list) = 1

\* no identity, a missing file, or no hostname both matched and kept
FatalCondition ==
    \/ ~Truthy(user_id)
    \/ ~inventory_exists
    \/ ~host_file_exists
    \/ Kept = {}

\* C5: a fatal condition makes main return an error result, and a run that
\* returned an error executed no switch, detail or create command, appended
\* nothing to the registry and wrote no summary.
C5_FatalAborts ==
    /\ pc \notin {"start", "auth"} /\ FatalCondition => pc = "failed"
    /\ pc = "failed" =>
          /\ FatalCondition
          /\ ret.kind = "error"
          /\ executed.switch = {} /\ executed.detail = {} /\ executed.snapshot = {}
          /\ workers = <<>>
          /\ snap_rid_list = <<>>
          /\ summaries = <<>>

\* identity found, files present, every matched hostname excluded
C5_Witness ==
    /\ pc = "failed"
    /\ Truthy(user_id)
    /\ inventory_exists /\ host_file_exists
    /\ excluded_vms # <<>>
    /\ ret = [kind |-> "error", error |-> "No valid VM information found."]

\* main has gone through the results of record i's group
Collected(i) ==
    \/ pc = "done"
    \/ pc \in {"switch", "detail", "gather"} /\ group_no > GroupOf(i)

NoRegistryEntry(i) == \A j \in 1..Len(snap_rid_list) : snap_rid_list[j].idx # i

\* C6: a task whose create command exited zero with a JSON object without id
\* returns "Failed to extract snapshot ID", one whose command failed returns
\* "Failed to create snapshot"; in both cases nothing is appended to the
\* registry for that task and its outcome is reported in failed, not in
\* succeeded.
C6_NoIdNoRecord ==
    \A i \in 1..Len(workers) :
        workers[i].st = "done" =>
            LET o == workers[i].last
                reason == IF o.rc # 0 THEN FailedToCreateSnapshot
                          ELSE FailedToExtractSnapshotId
            IN  o.rc # 0 \/ ~Contains(<<"id">>, o.out) =>
                    /\ workers[i].result = <<NameOf(i), reason>>
                    /\ NoRegistryEntry(i)
                    /\ Collected(i) =>
                          /\ Occurrences(failed_snapshots, <<NameOf(i), reason>>) >= 1
                          /\ Occurrences(successful_snapshots, <<NameOf(i), reason>>) = 0

\* a summarized run with a response without id
C6_Witness ==
    /\ pc = "done"
    /\ \E i \in 1..Len(workers) :
          /\ workers[i].st = "done"
          /\ workers[i].last.rc = 0
          /\ workers[i].result[2] = FailedToExtractSnapshotId
          /\ Occurrences(failed_snapshots, workers[i].result) = 1

\* main is no longer in record i's group
LeftGroup(i) == pc \in {"done", "raised"} \/ group_no # GroupOf(i)

\* the task of record i returned a failure reason or raised
EndedInFailure(i) ==
    \/ workers[i].st = "raised"
    \/ /\ workers[i].st = "done"
       /\ workers[i].result[2] \in {FailedToCreateSnapshot, FailedToExtractSnapshotId}

\* C7: a task that ends in failure does not cancel or skip the other tasks of
\* its group: none of them is cancelled, and once main has left the group
\* each of them has returned and its outcome is in succeeded or failed.
C7_FanOutJoined ==
    \A i, j \in 1..Len(workers) :
        /\ i # j
        /\ EndedInFailure(i)
        /\ workers[j].st # "none"
        /\ GroupOf(i) = GroupOf(j)
        => /\ workers[j].st # "cancelled"
           /\ LeftGroup(j) =>
                 /\ workers[j].st = "done"
                 /\ Occurrences(successful_snapshots, workers[j].result)
                      + Occurrences(failed_snapshots, workers[j].result) >= 1

\* C8: a hostname whose inventory line carries an exclusion keyword (case
\* ignored) is in the excluded list, its line is not in the resolved list,
\* it is not counted in total_vms and its VM is in neither succeeded nor
\* failed; a hostname whose line carries none is resolved and not excluded.
C8_ExcludedAbsent ==
    ResolutionRan =>
        /\ \A n \in Dropped :
              LET line == LineOf[hostnames[n]]
              IN  /\ Occurrences(excluded_vms, hostnames[n]) >= 1
                  /\ Occurrences(vm_list, line) = 0
                  /\ ~Reported(successful_snapshots, SplitWs(line)[2])
                  /\ ~Reported(failed_snapshots, SplitWs(line)[2])
        /\ \A n \in Kept :
              /\ Occurrences(vm_list, LineOf[hostnames[n]]) >= 1
              /\ Occurrences(excluded_vms, hostnames[n]) = 0
        /\ Len(excluded_vms) = Cardinality(Dropped)
        /\ total_vms = Cardinality(Kept)

\* "X4" excluded by the keyword "x", the other hostname snapshotted or failed
C8_Witness ==
    /\ pc = "done"
    /\ excluded_vms = << <<"X", "4">> >>
    /\ exclude_keywords = << <<"x">>, <<"T">> >>
    /\ total_vms = 1
    /\ Len(hostnames) = 2

\* the lines of the hostnames matched and kept, in host-list order
ExpectedVmList ==
    LET keep(h) == Truthy(LineOf[h]) /\ ~KeywordHit(h)
        kept == SelectSeq(hostnames, keep)
    IN  [n \in 1..Len(kept) |-> LineOf[kept[n]]]

\* C9: the resolved list is exactly the lines of the hostnames that have a
\* match and are not excluded, in host-list order; hostnames without a match
\* are left out and do not make the run fail while another one resolves.
C9_UnmatchedSkipped ==
    ResolutionRan =>
        IF ExpectedVmList = <<>>
        THEN pc = "failed"
        ELSE pc # "failed" /\ vm_list = ExpectedVmList

\* a hostname without inventory line ahead of one that resolves
C9_Witness ==
    /\ pc = "switch"
    /\ hostnames = << <<"v", "9">>, <<"v", "1">> >>
    /\ vm_list = << <<"/", "s", "/", "A", "/", "1", " ", "v", "1">> >>

\* the subscription segment of record i's resource id
SubscriptionOfRecord(i) == SplitOn(SplitWs(vm_list[i])[1], "/")[3]

\* C11: while a detail command or a create command is executing for a VM,
\* the active subscription (set by the last switch command that succeeded)
\* is that VM's subscription; and while a switch command is executing or
\* waiting to be retried no task has a create command in flight or pending.
C11_ContextMatchesCommand ==
    /\ pc = "detail" /\ mainCmd.phase = "run" =>
          active_subscription = SubscriptionOfRecord(CurrentVm.idx)
    /\ \A i \in 1..Len(workers) :
          workers[i].st = "run" => active_subscription = SubscriptionOfRecord(i)
    /\ pc = "switch" => \A i \in 1..Len(workers) : ~Pending(i)

\* a create command of the second group runs in the second subscription
\* after a task of the first group has returned
C11_Witness ==
    /\ pc = "gather"
    /\ group_no = 2
    /\ active_subscription = <<"B">>
    /\ \E i, j \in 1..Len(workers) :
          /\ workers[i].st = "run" /\ SubscriptionOfRecord(i) = <<"B">>
          /\ workers[j].st = "done" /\ SubscriptionOfRecord(j) = <<"A">>

\* the place of record i in its group
PositionInGroup(i) ==
    CHOOSE k \in 1..Len(grouped_vms[GroupOf(i)].vms) :
        grouped_vms[GroupOf(i)].vms[k].idx = i

\* C12 as stated: while main is still fetching details in a group, no task
\* of that group has started: none has a create command running or pending
\* and none has finished.
C12_DetailsBeforeWorkers ==
    pc = "detail" =>
        \A i \in 1..Len(workers) :
            GroupOf(i) = group_no => workers[i].st = "none"

\* C12 amended: a task exists only for a record whose own detail command has
\* finished and did not fail, in a group main has reached; so while a detail
\* command is in flight, tasks of the group belong to earlier records only.
C12_WorkerAfterOwnDetail ==
    \A i \in 1..Len(workers) :
        workers[i].st # "none" =>
            /\ i \in executed.detail
            /\ i \notin executed.detail_failed
            /\ i \in executed.snapshot
            /\ GroupOf(i) <= group_no
            /\ pc = "detail" /\ GroupOf(i) = group_no => PositionInGroup(i) < vm_no

\* the create command of the group's first record runs while the detail
\* command of its second record is in flight
C12_Witness ==
    /\ pc = "detail"
    /\ mainCmd.phase = "run"
    /\ vm_no = 2
    /\ workers[grouped_vms[group_no].vms[1].idx].st = "run"
    /\ workers[grouped_vms[group_no].vms[2].idx].st = "none"

\* C13: at the summary the registry and succeeded correspond one to one:
\* every record appended by a task has that task's VM in succeeded with the
\* record's snapshot name and not in failed, and succeeded has as many
\* entries as the registry, each one naming a snapshot the registry holds.
C13_RegistryMatchesSucceeded ==
    pc = "done" =>
        /\ \A j \in 1..Len(snap_rid_list) :
              LET entry == <<NameOf(snap_rid_list[j].idx), snap_rid_list[j].snapshot_name>>
              IN  /\ Occurrences(successful_snapshots, entry) >= 1
                  /\ Occurrences(failed_snapshots, entry) = 0
        /\ Len(successful_snapshots) = Len(snap_rid_list)
        /\ \A k \in 1..Len(successful_snapshots) :
              \E j \in 1..Len(snap_rid_list) :
                  snap_rid_list[j].snapshot_name = successful_snapshots[k][2]

(***************************************************************************)
(* More properties of run_az_command (SpecExec).                           *)
(***************************************************************************)
\* the attempts that exited zero, by their place in the order of execution
ExZeroAttempts == {k \in 1..Len(ex.captured) : ex.captured[k].rc = 0}

\* C14: run_az_command stops at the first attempt that exits zero: that
\* attempt is the last one executed, no delay follows it, the function has
\* returned that attempt's captured output with exit code 0; the number of
\* executions is the index of that attempt, which is at most max_retries;
\* and the returned exit code is 0 exactly when some attempt exited zero,
\* otherwise all max_retries attempts were made.
C14_StopsAtFirstSuccess ==
    /\ \A k \in ExZeroAttempts :
          /\ k = Len(ex.captured)
          /\ k <= ex.max_retries
          /\ ex.phase = "returned"
          /\ ex.calls = k
          /\ ex.sleeps = k - 1
          /\ ex.ret = CapturedResult(ex.captured[k])
    /\ ex.phase = "returned" =>
          /\ ex.calls = Len(ex.captured)
          /\ ex.ret.returncode = 0 <=> ExZeroAttempts # {}
          /\ ExZeroAttempts = {} => ex.calls = ex.max_retries

\* the second of three allowed attempts exits zero and printed something
C14_Witness ==
    /\ ex.phase = "returned"
    /\ ex.max_retries = max_retries_default
    /\ Len(ex.captured) = 2
    /\ ex.captured[1].rc # 0
    /\ ex.captured[2].rc = 0
    /\ ex.captured[2].out # <<>>
    /\ ex.sleeps = 1

(***************************************************************************)
(* More properties of a run of main (Spec).                                *)
(***************************************************************************)
\* the task of record i before a step (no task before the records exist)
TaskBefore(i) == IF i <= Len(workers) THEN workers[i] ELSE NoWorker

\* the step starts an execution of record i's create command
StartsCreate(i) ==
    /\ workers'[i].st = "run"
    /\ TaskBefore(i).st # "run" \/ workers'[i].attempt # TaskBefore(i).attempt

\* the step starts a group's switch command for the first time
StartsSwitch == pc' = "switch" /\ pc # "switch"

C15_Step ==
    /\ \A i \in 1..Len(workers') :
          /\ StartsCreate(i) =>
                \/ /\ TaskBefore(i).st = "none"
                   /\ workers'[i].attempt = 0
                \/ /\ TaskBefore(i).st = "sleep"
                   /\ TaskBefore(i).last.rc # 0
                   /\ workers'[i].attempt = TaskBefore(i).attempt + 1
                   /\ workers'[i].attempt < max_retries_default
          /\ TaskBefore(i).st # "none" => workers'[i].st # "none"
          /\ TaskBefore(i).st \in {"done", "raised", "cancelled"} =>
                workers'[i] = TaskBefore(i)
    /\ group_no' >= group_no
    /\ StartsSwitch => group_no' = group_no + 1

\* C15: every execution of a record's create command is either the first
\* attempt of the one task launched for that record, or the retry, inside
\* the task, of an attempt that exited non-zero, and it is at most the third
\* attempt; a task that has finished is never started again, a record that
\* has a task never gets another one, and no group is entered twice.
C15_RetriesOnlyInExecutor == [][C15_Step]_vars

\* one task of a group has failed for good while another one of the same
\* group is at its third attempt
C15_Witness ==
    /\ pc = "gather"
    /\ \E i, j \in 1..Len(workers) :
          /\ workers[i].st = "done"
          /\ workers[i].result[2] = FailedToCreateSnapshot
          /\ workers[j].st = "run"
          /\ workers[j].attempt = max_retries_default - 1
          /\ workers[j].last.rc # 0

\* main has left the loop over the VMs of group g without raising in it
DetailLoopFinished(g) ==
    \/ pc = "done"
    \/ pc \in {"switch", "detail", "gather"} /\ group_no > g
    \/ pc = "gather" /\ group_no = g

\* C16: a record whose detail command failed for good is in failed with
\* "Failed to get VM details" (one entry per such record, and only such
\* records carry that reason), has no task and no create command; and once
\* main is through the group's VMs every other record of the group has had
\* its own detail command and, unless that failed too, has its own task.
C16_DetailFailureFailsOneVm ==
    /\ \A i \in executed.detail_failed :
          /\ workers[i].st = "none"
          /\ i \notin executed.snapshot
          /\ Occurrences(failed_snapshots, <<NameOf(i), FailedToGetVmDetails>>)
               = Cardinality({k \in executed.detail_failed : NameOf(k) = NameOf(i)})
          /\ DetailLoopFinished(GroupOf(i)) =>
                \A j \in 1..Len(vm_list) :
                    j # i /\ GroupOf(j) = GroupOf(i) =>
                        /\ j \in executed.detail
                        /\ j \notin executed.detail_failed =>
                              workers[j].st # "none" /\ j \in executed.snapshot
    /\ \A n \in 1..Len(failed_snapshots) :
          failed_snapshots[n][2] = FailedToGetVmDetails =>
              \E i \in executed.detail_failed : NameOf(i) = failed_snapshots[n][1]

\* the detail command of a group's first record failed, the task of its
\* second record has returned
C16_Witness ==
    \E i \in executed.detail_failed : \E j \in 1..Len(workers) :
        /\ GroupOf(j) = GroupOf(i)
        /\ PositionInGroup(i) < PositionInGroup(j)
        /\ workers[j].st = "done"
        /\ pc = "done"

\* resolved records with two fields whose resource id has too few segments
\* to hold a subscription id, and the records that unpack
MalformedRecords ==
    {i \in 1..Len(vm_list) :
        /\ Len(SplitWs(vm_list[i])) = 2
        /\ Len(SplitOn(SplitWs(vm_list[i])[1], "/")) < 3}
WellFormedRecords ==
    {i \in 1..Len(vm_list) :
        /\ Len(SplitWs(vm_list[i])) = 2
        /\ Len(SplitOn(SplitWs(vm_list[i])[1], "/")) >= 3}

\* C17: when the resolved list holds a record with a malformed resource id
\* next to well-formed ones, the run is not ended by an exception: the
\* well-formed records are grouped, and at the summary the malformed
\* record's VM is reported in failed and every well-formed one has its
\* outcome.
C17_MalformedIsPerRecordError ==
    MalformedRecords # {} /\ WellFormedRecords # {} =>
        /\ pc # "raised"
        /\ \A j \in WellFormedRecords :
              \E g \in 1..Len(grouped_vms) : \E k \in 1..Len(grouped_vms[g].vms) :
                  grouped_vms[g].vms[k].idx = j
        /\ pc = "done" =>
              /\ \A i \in MalformedRecords :
                    Reported(failed_snapshots, SplitWs(vm_list[i])[2])
              /\ \A j \in WellFormedRecords :
                    \/ Reported(failed_snapshots, SplitWs(vm_list[j])[2])
                    \/ Reported(successful_snapshots, SplitWs(vm_list[j])[2])

\* C18: a run that has ended without returning an error has written its
\* summary, no run writes more than one, and when the summary is written no
\* command of main and no task is in flight or pending and its totals are
\* the counts main returns.
C18_SummaryOncePerRun ==
    /\ Len(summaries) <= 1
    /\ pc \in {"done", "raised"} => Len(summaries) = 1
    /\ Len(summaries) = 1 =>
          /\ pc = "done"
          /\ mainCmd = CmdIdle
          /\ \A i \in 1..Len(workers) : workers[i].st \in {"none", "done"}
          /\ ret.kind = "counts"
          /\ summaries[1].total_vms = ret.total_vms
          /\ Len(summaries[1].successful) = ret.successful_snapshots
          /\ Len(summaries[1].failed) = ret.failed_snapshots

\* nothing of the run can take a step any more
RunEnded == ~ENABLED Next

\* the commands the run has issued so far (each one is attempted up to
\* max_retries times)
CommandsIssued ==
    (IF executed.identity THEN 1 ELSE 0) + Cardinality(executed.switch)
        + Cardinality(executed.detail) + Cardinality(executed.snapshot)

\* C19: a run that can take no further step is in Done (summary written) or
\* in Failed (error returned); no command is attempted more than max_retries
\* times, and a run with G groups and V resolved VMs issues at most
\* 1 + G + 2 * V commands.
C19_TerminatesDoneOrFailed ==
    /\ RunEnded =>
          \/ pc = "done" /\ Len(summaries) = 1
          \/ pc = "failed" /\ ret.kind = "error"
    /\ mainCmd.attempt < max_retries_default
    /\ \A i \in 1..Len(workers) : workers[i].attempt < max_retries_default
    /\ CommandsIssued <= 1 + Len(grouped_vms) + 2 * Len(vm_list)

(***************************************************************************)
(* Properties of a run among other requests (SpecOverlap).                 *)
(***************************************************************************)
\* C20: every record the run appends to the registry carries the expiration
\* computed from the ttl_duration the run was called with, also when another
\* request starts while the run is under way.
C20_ExpirationFromOwnTtl ==
    \A j \in 1..Len(snap_rid_list) :
        snap_rid_list[j].expiration_date = ttl_duration

====
